---- MODULE Spec2Model ----
(***************************************************************************)
(* Model of the Pollen monthly-performance dashboard                       *)
(* (src/src/app/page.tsx): the row parser and the normaliser               *)
(* transformApiToNormalizedChart, the labels of formatBubble, and the      *)
(* Page component's fetch / reload / overlay life cycle with its timers    *)
(* and its teardown.                                                       *)
(*                                                                         *)
(* Conventions.                                                            *)
(*  - A JSON value is a record [t, n, s]: t is the JavaScript type tag     *)
(*    ("undefined", "null", "number", "string"), n the number, s the       *)
(*    string as a sequence of one-character strings.  Numbers are the      *)
(*    finite integers (JSON carries no NaN or Infinity).                   *)
(*  - Chart values are kept in hundredths: a value v of the program is     *)
(*    the integer 100 * v here.  Every day position x * L / 100 has a      *)
(*    fractional part that is a multiple of 1/100, so the interpolation    *)
(*    is exact in hundredths (the program computes it in binary floating   *)
(*    point; the model computes the real-number value).                    *)
(*  - JavaScript's null for ChartRow.current is the empty sequence Null;   *)
(*    a present value v is <<v>>.                                          *)
(***************************************************************************)
EXTENDS Integers, Sequences, FiniteSets, TLC

\* ------------------------------------------------------------------------
\* Bounds of the model
\* ------------------------------------------------------------------------

\* Most rows in a fetched payload.
MaxRows == 2

\* Most loadData calls in one life of the page (between two page loads).
MaxCalls == 3

\* Most page reloads in a run.
MaxReloads == 4

\* How many times the replay interval fires.
MaxReplays == 2

\* How many amounts are added up to make a value to format.
MaxAdds == 4

\* The largest value formatted, in hundredths (20,000,000.00).
MaxValue == 2000000000

\* ------------------------------------------------------------------------
\* JSON values and JavaScript string primitives
\* ------------------------------------------------------------------------

Undefined == [t |-> "undefined", n |-> 0, s |-> <<>>]

JsonNull == [t |-> "null", n |-> 0, s |-> <<>>]

Num(k) == [t |-> "number", n |-> k, s |-> <<>>]

Str(chars) == [t |-> "string", n |-> 0, s |-> chars]

Digits == <<"0", "1", "2", "3", "4", "5", "6", "7", "8", "9">>

IsDigit(c) == \E i \in 1..Len(Digits) : Digits[i] = c

DigitVal(c) == (CHOOSE i \in 1..Len(Digits) : Digits[i] = c) - 1

IsSpace(c) == c \in {" ", "\t"}

UpperCase == <<"A", "D", "E", "F", "I", "L", "N", "U", "X">>

LowerCase == <<"a", "d", "e", "f", "i", "l", "n", "u", "x">>

\* String.prototype.toLowerCase, one character.
ToLowerChar(c) ==
  IF \E i \in 1..Len(UpperCase) : UpperCase[i] = c
  THEN LowerCase[CHOOSE i \in 1..Len(UpperCase) : UpperCase[i] = c]
  ELSE c

ToLowerCase(s) == [i \in 1..Len(s) |-> ToLowerChar(s[i])]

RECURSIVE TrimStart(_)
TrimStart(s) ==
  IF s # <<>> /\ IsSpace(Head(s)) THEN TrimStart(Tail(s)) ELSE s

RECURSIVE TrimEnd(_)
TrimEnd(s) ==
  IF s # <<>> /\ IsSpace(s[Len(s)]) THEN TrimEnd(SubSeq(s, 1, Len(s) - 1)) ELSE s

\* String.prototype.trim
Trim(s) == TrimEnd(TrimStart(s))

\* The longest prefix of s made of decimal digits.
RECURSIVE DigitPrefix(_)
DigitPrefix(s) ==
  IF s # <<>> /\ IsDigit(Head(s)) THEN <<Head(s)>> \o DigitPrefix(Tail(s)) ELSE <<>>

\* The value of a sequence of decimal digits (0 for none).
RECURSIVE DigitsValue(_)
DigitsValue(s) ==
  IF s = <<>> THEN 0 ELSE 10 * DigitsValue(SubSeq(s, 1, Len(s) - 1)) + DigitVal(s[Len(s)])

StripSign(s) == IF s # <<>> /\ Head(s) \in {"-", "+"} THEN Tail(s) ELSE s

SignOf(s) == IF s # <<>> /\ Head(s) = "-" THEN -1 ELSE 1

\* parseInt(s, 10): leading white space, an optional sign, then the longest
\* run of digits; NaN when that run is empty.
ParseInt(s) ==
  LET body == StripSign(TrimStart(s))
      run  == DigitPrefix(body)
  IN  IF run = <<>> THEN [nan |-> TRUE, n |-> 0]
      ELSE [nan |-> FALSE, n |-> SignOf(TrimStart(s)) * DigitsValue(run)]

\* Number(s) on the strings of the model's alphabet (no ".", no exponent):
\* white space is trimmed, the empty string is 0, an optionally signed run of
\* digits is its value, anything else is NaN.
ToNumeric(s) ==
  LET t    == Trim(s)
      body == StripSign(t)
  IN  IF t = <<>> THEN [nan |-> FALSE, n |-> 0]
      ELSE IF body # <<>> /\ \A i \in 1..Len(body) : IsDigit(body[i])
           THEN [nan |-> FALSE, n |-> SignOf(t) * DigitsValue(body)]
           ELSE [nan |-> TRUE, n |-> 0]

\* Number.prototype.toString of a non-negative integer.
RECURSIVE NatToString(_)
NatToString(k) ==
  IF k < 10 THEN <<Digits[k + 1]>> ELSE NatToString(k \div 10) \o <<Digits[(k % 10) + 1]>>

\* (v ?? '').toString() for the JSON values of the model.
ToStringOrEmpty(v) ==
  CASE v.t = "string" -> v.s
    [] v.t = "number" -> IF v.n < 0 THEN <<"-">> \o NatToString(-v.n) ELSE NatToString(v.n)
    [] OTHER -> <<>>

Max2(a, b) == IF a >= b THEN a ELSE b

Min2(a, b) == IF a <= b THEN a ELSE b

\* Math.max(...xs, floor) over a set of integers.
SetMax(S, floor) ==
  IF S = {} THEN floor ELSE Max2(floor, CHOOSE m \in S : \A k \in S : k <= m)

\* ------------------------------------------------------------------------
\* Row parser
\* ------------------------------------------------------------------------

StrNan == <<"n", "a", "n">>

StrNull == <<"n", "u", "l", "l">>

StrUndefined == <<"u", "n", "d", "e", "f", "i", "n", "e", "d">>

parseDay(v) ==
  CASE v.t = "number" -> v.n
    [] v.t = "string" -> LET r == ParseInt(v.s) IN IF r.nan THEN 0 ELSE r.n
    [] OTHER -> 0

toNumber(v) ==
  CASE v.t = "number" -> v.n
    [] v.t = "string" ->
         LET s == ToLowerCase(Trim(v.s))
         IN  IF s = <<>> \/ s = StrNan \/ s = StrNull \/ s = StrUndefined THEN 0
             ELSE LET r == ToNumeric(s) IN IF r.nan THEN 0 ELSE r.n
    [] OTHER -> 0

\* ------------------------------------------------------------------------
\* Normaliser
\* ------------------------------------------------------------------------

\* x runs over 0..Steps and p = x / Steps.
Steps == 100

Null == <<>>

Some(v) == <<v>>

KeyCurrent == "current_month_total_amount_released"

KeyRecord == "record_month_total_amount_released"

KeyLastYear == "last_year_current_month_total_amount_released"

\* An ApiRow as JSON delivers it: an object, or the value null.
Row(day, cur, rec, ly) ==
  [isNull |-> FALSE, base_month_day |-> day,
   current_month_total_amount_released |-> cur,
   record_month_total_amount_released |-> rec,
   last_year_current_month_total_amount_released |-> ly]

NullRow == [Row(Undefined, Undefined, Undefined, Undefined) EXCEPT !.isNull = TRUE]

RowDay(r) == parseDay(r.base_month_day)

\* The first n running totals of daily (the loop of cumulative after n rounds).
RECURSIVE CumulativeTo(_, _)
CumulativeTo(daily, n) ==
  IF n = 0 THEN <<>>
  ELSE LET out == CumulativeTo(daily, n - 1)
           acc == IF n = 1 THEN 0 ELSE out[n - 1]
       IN  Append(out, acc + daily[n])

cumulative(daily) == CumulativeTo(daily, Len(daily))

\* cum[i] ?? dflt, with the program's 0-based index i.
At(cum, i, dflt) == IF i >= 0 /\ i < Len(cum) THEN cum[i + 1] ELSE dflt

\* Faulty variant of cumAtProgress: the total through the last whole day, with
\* no interpolation.
cumAtProgressWholeDay(cum, L, x) ==
  IF L <= 0 THEN 0
  ELSE IF x <= 0 THEN 0
  ELSE IF x >= Steps THEN Steps * At(cum, L - 1, 0)
  ELSE LET loIndex == Max2(((x * L) \div Steps) - 1, -1)
       IN  Steps * (IF loIndex >= 0 THEN At(cum, loIndex, 0) ELSE 0)

\* cumAtProgress(cum, L, x / Steps), in hundredths.
cumAtProgress(cum, L, x) ==
  IF L <= 0 THEN 0
  ELSE IF x <= 0 THEN 0
  ELSE IF x >= Steps THEN Steps * At(cum, L - 1, 0)
  ELSE
    LET dayFloatS == x * L
        loDay     == dayFloatS \div Steps
        hiDay     == Min2(loDay + 1, L)
        loIndex   == Max2(loDay - 1, -1)
        hiIndex   == hiDay - 1
        loValue   == IF loIndex >= 0 THEN At(cum, loIndex, 0) ELSE 0
        hiValue   == At(cum, hiIndex, loValue)
        loPos     == loDay
        hiPos     == hiDay
    IN  IF hiPos = loPos THEN Steps * hiValue
        ELSE Steps * loValue
             + ((hiValue - loValue) * (dayFloatS - Steps * loPos)) \div (hiPos - loPos)

\* [...rows].sort by parseDay: Array.prototype.sort is stable.
RECURSIVE InsertSorted(_, _)
InsertSorted(sorted, r) ==
  IF sorted = <<>> THEN <<r>>
  ELSE IF RowDay(sorted[Len(sorted)]) <= RowDay(r) THEN Append(sorted, r)
  ELSE Append(InsertSorted(SubSeq(sorted, 1, Len(sorted) - 1), r), sorted[Len(sorted)])

RECURSIVE SortRows(_)
SortRows(rows) ==
  IF rows = <<>> THEN <<>>
  ELSE InsertSorted(SortRows(SubSeq(rows, 1, Len(rows) - 1)), rows[Len(rows)])

\* The parsed day of every row of the sorted list, in order.
RECURSIVE RowDays(_)
RowDays(sorted) ==
  IF sorted = <<>> THEN <<>>
  ELSE Append(RowDays(SubSeq(sorted, 1, Len(sorted) - 1)), RowDay(sorted[Len(sorted)]))

\* byDay: for each day 1..31 the index in the sorted list of the row the map
\* holds for it (a later row with the same day overwrites an earlier one), or
\* 0 when the map has no such key.
byDay(sorted) ==
  LET days == RowDays(sorted)
  IN  [d \in 1..31 |->
         IF \E i \in 1..Len(days) : days[i] = d
         THEN CHOOSE i \in 1..Len(days) :
                days[i] = d /\ \A j \in (i + 1)..Len(days) : days[j] # d
         ELSE 0]

\* sorted.map((r) => parseDay(r.base_month_day)).filter((d) => d > 0)
PositiveDays(sorted) ==
  LET days == RowDays(sorted) IN {d \in {days[i] : i \in 1..Len(days)} : d > 0}

\* (r[k] ?? '').toString().trim().toLowerCase()
RawField(r, k) == ToLowerCase(Trim(ToStringOrEmpty(r[k])))

\* Faulty variant of inferToday: the empty string is taken for a sentinel too, as
\* toNumber takes it.
inferTodayEmptyIsSentinel(sorted) ==
  LET real == {d \in PositiveDays(sorted) :
                 \E i \in 1..Len(sorted) :
                    /\ RowDay(sorted[i]) = d
                    /\ RawField(sorted[i], KeyCurrent) # StrNan
                    /\ RawField(sorted[i], KeyCurrent) # <<>>}
      todayDay == SetMax(real, 0)
  IN  IF todayDay = 0 THEN SetMax(PositiveDays(sorted), 0) ELSE todayDay

\* The scan for "today" and its fallback, before the clamp to the month length.
inferToday(sorted) ==
  LET real == {d \in PositiveDays(sorted) :
                 \E i \in 1..Len(sorted) :
                    RowDay(sorted[i]) = d /\ RawField(sorted[i], KeyCurrent) # StrNan}
      todayDay == SetMax(real, 0)
  IN  IF todayDay = 0 THEN SetMax(PositiveDays(sorted), 0) ELSE todayDay

\* Faulty variant of inferLen: only the current-month field is looked at, whatever
\* keys are asked for.
inferLenCurrentOnly(sorted, keys) ==
  LET hit == {d \in PositiveDays(sorted) :
                \E i \in 1..Len(sorted) :
                   /\ RowDay(sorted[i]) = d
                   /\ LET raw == RawField(sorted[i], KeyCurrent)
                      IN  raw # <<>> /\ raw # StrNan}
      L0  == SetMax(hit, 0)
      L   == IF L0 = 0 THEN SetMax(PositiveDays(sorted), 31) ELSE L0
  IN  Min2(Max2(L, 28), 31)

inferLen(sorted, keys) ==
  LET hit == {d \in PositiveDays(sorted) :
                \E i \in 1..Len(sorted) :
                   /\ RowDay(sorted[i]) = d
                   /\ \E k \in keys :
                        LET raw == RawField(sorted[i], k)
                        IN  raw # <<>> /\ raw # StrNan}
      L0  == SetMax(hit, 0)
      L   == IF L0 = 0 THEN SetMax(PositiveDays(sorted), 31) ELSE L0
  IN  Min2(Max2(L, 28), 31)

\* r ? (r[key] ?? '0') : '0'
RawOrZero(hasRow, v) ==
  IF hasRow /\ v.t \notin {"undefined", "null"} THEN v ELSE Str(<<"0">>)

\* toNumber('0'), what buildDaily pushes for a day byDay has no row for.
MissingDayAmount == toNumber(RawOrZero(FALSE, Undefined))

\* buildDaily(key, L); a day past 31 has no key in byDay.
buildDaily(sorted, map, key, L) ==
  [d \in 1..L |->
     IF d <= 31 /\ map[d] # 0 THEN toNumber(RawOrZero(TRUE, sorted[map[d]][key]))
     ELSE MissingDayAmount]

\* Faulty variant of RoundDiv: Math.floor in place of Math.round.
RoundDivFloor(a, b) == a \div b

\* Math.round of the rational a / b, b > 0: halves round up.
RoundDiv(a, b) == (2 * a + b) \div (2 * b)

\* todayDay = Math.min(todayDay, currentMonthLen)
clampToday(todayDay, currentMonthLen) == Min2(todayDay, currentMonthLen)

\* Math.round((currentMonthLen > 0 ? todayDay / currentMonthLen : 0) * 100)
progressX(todayDay, currentMonthLen) ==
  IF currentMonthLen > 0 THEN RoundDiv(todayDay * Steps, currentMonthLen) ELSE 0

\* Faulty variant of currentOrNull: the point at today's progress is cut off too.
currentOrNullOffByOne(x, currentProgressX, currentVal) ==
  IF x >= currentProgressX THEN Null ELSE Some(currentVal)

\* x > currentProgressX ? null : currentVal
currentOrNull(x, currentProgressX, currentVal) ==
  IF x > currentProgressX THEN Null ELSE Some(currentVal)

\* Faulty variant of LoopXs: the loop stops at x < 100.
LoopXsShort == [i \in 1..Steps |-> i - 1]

\* The x values the resampling loop pushes a point for, in order.
LoopXs == [i \in 1..(Steps + 1) |-> i - 1]

Meta(currentMonthLen, recordMonthLen, todayDay, currentProgressX) ==
  [currentMonthLen |-> currentMonthLen, recordMonthLen |-> recordMonthLen,
   todayDay |-> todayDay, currentProgressX |-> currentProgressX]

\* What a call of transformApiToNormalizedChart ends with: a returned
\* {data, meta}, or a thrown exception (threw, with nothing returned).
Returned(data, meta) == [threw |-> FALSE, data |-> data, meta |-> meta]

Thrown == [threw |-> TRUE, data |-> <<>>, meta |-> Meta(0, 0, 0, 0)]

empty ==
  Returned(<<[x |-> 0, current |-> Some(0), lastYear |-> 0, record |-> 0]>>,
           Meta(31, 31, 0, 0))

\* A parsed payload: absent (null / undefined) or an array of rows.
Absent == [isArray |-> FALSE, rows |-> <<>>]

Array(rows) == [isArray |-> TRUE, rows |-> rows]

\* The body of transformApiToNormalizedChart after the empty check, for rows
\* that are all objects.
normalize(rows) ==
  LET sorted          == SortRows(rows)
      currentMonthLen == inferLen(sorted, {KeyCurrent, KeyLastYear})
      recordMonthLen  == inferLen(sorted, {KeyRecord})
      todayDay        == clampToday(inferToday(sorted), currentMonthLen)
      map             == byDay(sorted)
      currentCum      == cumulative(buildDaily(sorted, map, KeyCurrent, currentMonthLen))
      lastYearCum     == cumulative(buildDaily(sorted, map, KeyLastYear, currentMonthLen))
      recordCum       == cumulative(buildDaily(sorted, map, KeyRecord, recordMonthLen))
      currentProgressX == progressX(todayDay, currentMonthLen)
      xs              == LoopXs
  IN  Returned(
        [i \in 1..Len(xs) |->
           [x        |-> xs[i],
            current  |-> currentOrNull(xs[i], currentProgressX,
                                       cumAtProgress(currentCum, currentMonthLen, xs[i])),
            lastYear |-> cumAtProgress(lastYearCum, currentMonthLen, xs[i]),
            record   |-> cumAtProgress(recordCum, recordMonthLen, xs[i])]],
        Meta(currentMonthLen, recordMonthLen, todayDay, currentProgressX))

\* if (!rows?.length) return empty; then the first read of r.base_month_day on
\* a row that is null throws a TypeError (in the sort comparator, or in the
\* byDay loop when the list has one row).
transformApiToNormalizedChart(rows) ==
  IF ~rows.isArray \/ Len(rows.rows) = 0 THEN empty
  ELSE IF \E i \in 1..Len(rows.rows) : rows.rows[i].isNull THEN Thrown
  ELSE normalize(rows.rows)

\* ------------------------------------------------------------------------
\* The normaliser on its inputs
\* ------------------------------------------------------------------------

\* Raw base_month_day values: a padded numeric string, a number, a number
\* over 31 with trailing garbage.
DayInputs == {Str(<<" ", "1">>), Num(29), Str(<<"4", "0", "x">>)}

\* Raw amounts: the sentinel in mixed case with white space, a numeric string,
\* the empty string; the sentinel, a numeric string; a missing field, a
\* negative number.
CurrentInputs == {Str(<<" ", "N", "a", "N", " ">>), Str(<<"1", "0", "0">>), Str(<<>>)}

LastYearInputs == {Str(<<"n", "a", "n">>), Str(<<"5", "0">>)}

RecordInputs == {Undefined, Num(-3)}

\* A row whose day does not parse (parseDay gives 0), with real amounts.
GarbageDayRow == Row(Str(<<"x">>), Str(<<"1", "0", "0">>), Num(-3), Str(<<"5", "0">>))

\* A whole month of rows, one a day, every amount 1: 31 days for the current
\* month and last year, 28 days for the record month.
MonthRows ==
  [d \in 1..31 |->
     Row(Num(d), Str(<<"1">>), IF d <= 28 THEN Str(<<"1">>) ELSE Undefined, Str(<<"1">>))]

VARIABLES
  payload,   \* the parsed JSON body handed to the normaliser
  out,       \* how the call of transformApiToNormalizedChart on it ended
  tpc        \* "input" while the payload is put together, "done" after the call

tvars == <<payload, out, tpc>>

NoResult == Returned(<<>>, Meta(0, 0, 0, 0))

TInit ==
  /\ payload \in {Absent, Array(<<>>)}
  /\ out = NoResult
  /\ tpc = "input"

AddRow ==
  /\ tpc = "input"
  /\ payload.isArray
  /\ Len(payload.rows) < MaxRows
  /\ \E d \in DayInputs, c \in CurrentInputs, l \in LastYearInputs, r \in RecordInputs :
       payload' = Array(Append(payload.rows, Row(d, c, r, l)))
  /\ UNCHANGED <<out, tpc>>

AddGarbageDayRow ==
  /\ tpc = "input"
  /\ payload.isArray
  /\ Len(payload.rows) < MaxRows
  /\ payload' = Array(Append(payload.rows, GarbageDayRow))
  /\ UNCHANGED <<out, tpc>>

AddNullRow ==
  /\ tpc = "input"
  /\ payload.isArray
  /\ Len(payload.rows) < MaxRows
  /\ payload' = Array(Append(payload.rows, NullRow))
  /\ UNCHANGED <<out, tpc>>

AddMonthRows ==
  /\ tpc = "input"
  /\ payload = Array(<<>>)
  /\ payload' = Array(MonthRows)
  /\ UNCHANGED <<out, tpc>>

Transform ==
  /\ tpc = "input"
  /\ out' = transformApiToNormalizedChart(payload)
  /\ tpc' = "done"
  /\ UNCHANGED payload

TNext == AddRow \/ AddGarbageDayRow \/ AddNullRow \/ AddMonthRows \/ Transform

\* ------------------------------------------------------------------------
\* Labels: formatBubble and the summary labels
\* ------------------------------------------------------------------------

\* One million and a tenth of a million, in hundredths.
PerMillion == 100 * 1000000

PerTenth == PerMillion \div 10

\* Math.ceil of the rational a / b, a >= 0, b > 0.
CeilDiv(a, b) == IF a % b = 0 THEN a \div b ELSE (a \div b) + 1

\* (tenths / 10).toFixed(0) for a whole number of tenths that is a multiple
\* of 10, and (tenths / 10).toFixed(1).
ToFixed0(tenths) == NatToString(tenths \div 10)

ToFixed1(tenths) == NatToString(tenths \div 10) \o <<".">> \o NatToString(tenths % 10)

\* Faulty variant of formatBubble: Math.round in place of Math.ceil.
formatBubbleNearest(value) ==
  IF value < 10 * PerMillion
  THEN LET rounded == RoundDiv(value, PerTenth)
       IN  (IF rounded % 10 = 0 THEN ToFixed0(rounded) ELSE ToFixed1(rounded)) \o <<"M">>
  ELSE NatToString(RoundDiv(value, PerMillion)) \o <<"M">>

\* formatBubble (lines 427-435) of a value >= 0 given in hundredths: rounded
\* is kept in tenths of a million, so rounded % 1 === 0 is rounded % 10 = 0.
formatBubble(value) ==
  IF value < 10 * PerMillion
  THEN LET rounded == CeilDiv(value, PerTenth)
       IN  (IF rounded % 10 = 0 THEN ToFixed0(rounded) ELSE ToFixed1(rounded)) \o <<"M">>
  ELSE NatToString(CeilDiv(value, PerMillion)) \o <<"M">>

\* v ? formatBubble(v) : '0M' (lines 453-456).
summaryLabel(value) == IF value # 0 THEN formatBubble(value) ELSE <<"0", "M">>

\* Amounts to add up: half a unit, a unit, half a million, two million,
\* 9,999,999.
Amounts == {50, 100, PerMillion \div 2, 2 * PerMillion, 10 * PerMillion - 100}

VARIABLES
  value,   \* the value to format, in hundredths
  adds,    \* how many amounts were added up
  label,   \* the label made of it
  lpc      \* "input" while the value is put together, then "bubble" or "summary"

lvars == <<value, adds, label, lpc>>

LInit ==
  /\ value = 0
  /\ adds = 0
  /\ label = <<>>
  /\ lpc = "input"

AddAmount ==
  /\ lpc = "input"
  /\ adds < MaxAdds
  /\ \E a \in Amounts :
       /\ a <= MaxValue - value
       /\ value' = value + a
  /\ adds' = adds + 1
  /\ UNCHANGED <<label, lpc>>

\* A dot's bubble is rendered.
RenderBubble ==
  /\ lpc = "input"
  /\ label' = formatBubble(value)
  /\ lpc' = "bubble"
  /\ UNCHANGED <<value, adds>>

\* A summary card's label is rendered.
RenderSummary ==
  /\ lpc = "input"
  /\ label' = summaryLabel(value)
  /\ lpc' = "summary"
  /\ UNCHANGED <<value, adds>>

LNext == AddAmount \/ RenderBubble \/ RenderSummary

\* ------------------------------------------------------------------------
\* The Page component: fetch, automatic reload, loading overlay, timers
\* ------------------------------------------------------------------------

MAX_RETRIES == 3

PIXEL_SHIFT_MAX == 4

\* Values of rand(): the two ends and the middle of its range.
PixelShifts == {-PIXEL_SHIFT_MAX, 0, PIXEL_SHIFT_MAX}

\* error === null
NoError == "null"

\* The bodies a 2xx response of /api/dashboard/monthly-performance may carry:
\* JSON null, a list holding a null row, a list of one row; or no JSON at all.
GoodRow == Row(Str(<<" ", "1">>), Str(<<"1", "0", "0">>), Num(-3), Str(<<"5", "0">>))

Body(valid, json) == [valid |-> valid, json |-> json]

InvalidJson == Body(FALSE, Absent)

Bodies == {Body(TRUE, Absent), Body(TRUE, Array(<<NullRow>>)), Body(TRUE, Array(<<GoodRow>>)),
           InvalidJson}

\* The non-2xx statuses the route answers with (part_000 lines 12, 44, 56).
ErrorStatuses == {500, 502}

ApiError(status) == IF status = 500 THEN "API error: 500" ELSE "API error: 502"

\* One loadData call: where it is suspended ("fetch": await fetch, "text":
\* await res.text(), "json": await res.json(), "done": returned; "idle": not
\* started), whether its AbortController was aborted, and the response.
IdleCall == [pc |-> "idle", aborted |-> FALSE, status |-> 0, body |-> InvalidJson]

VARIABLES
  mode,            \* "fresh": rendered, effects not yet run; "strict": React
                   \* StrictMode is about to re-run the mount effect; "running";
                   \* "unmounted": torn down, every effect's cleanup has run
  strictMode,      \* whether the page runs under React StrictMode (development)
  data,            \* useState data
  meta,            \* useState meta
  loading,         \* useState loading
  error,           \* useState error
  dataReady,       \* useState dataReady
  cycle,           \* useState cycle
  retryCount,      \* retryCountRef.current
  controller,      \* refreshControllerRef.current: the call it belongs to, 0 for null
  calls,           \* the loadData calls of this page load
  nCalls,          \* how many loadData calls this page load has started
  reloadTimers,    \* pending setTimeout(() => window.location.reload(), ERROR_RETRY_MS)
  hourlyTimer,     \* whether the hourly setInterval is registered
  overlayMounted,  \* useState overlayMounted
  overlayVisible,  \* useState overlayVisible
  overlayTimer,    \* pending setTimeout(() => setOverlayMounted(false), OVERLAY_FADE_MS)
  jitterTimer,     \* whether the jitter setInterval is registered
  replayTimer,     \* whether the replay setInterval is registered
  replayStepTimer, \* pending setTimeout of a replay tick (REPLAY_PRELOADER_MS)
  replayFadeTimer, \* pending setTimeout a replay step schedules (OVERLAY_FADE_MS)
  pixelShift,      \* useState pixelShift (its x)
  replays,         \* history: replay ticks so far
  reloads,         \* history: page reloads so far
  streakReloads    \* history: reloads scheduled since the last successful fetch

shared == <<data, meta, error, loading, dataReady, cycle, retryCount, reloadTimers>>

pvars == <<mode, strictMode, data, meta, loading, error, dataReady, cycle, retryCount,
           controller, calls, nCalls, reloadTimers, hourlyTimer, overlayMounted,
           overlayVisible, overlayTimer, jitterTimer, replayTimer, replayStepTimer,
           replayFadeTimer, pixelShift, replays, reloads, streakReloads>>

\* The jitter and replay timers with what they write.
cosmetic == <<jitterTimer, replayTimer, replayStepTimer, replayFadeTimer, pixelShift, replays>>

vars == <<tvars, pvars, lvars>>

\* The state a page load starts in: the useState / useRef initial values, no
\* timer, no call.
FreshPage ==
  /\ mode = "fresh"
  /\ data = <<>>
  /\ meta = Meta(31, 31, 0, 0)
  /\ loading = TRUE
  /\ error = NoError
  /\ dataReady = FALSE
  /\ cycle = 0
  /\ retryCount = 0
  /\ controller = 0
  /\ calls = [c \in 1..MaxCalls |-> IdleCall]
  /\ nCalls = 0
  /\ reloadTimers = 0
  /\ hourlyTimer = FALSE
  /\ overlayMounted = TRUE
  /\ overlayVisible = TRUE
  /\ overlayTimer = FALSE
  /\ jitterTimer = FALSE
  /\ replayTimer = FALSE
  /\ replayStepTimer = FALSE
  /\ replayFadeTimer = FALSE
  /\ pixelShift = 0

PInit ==
  /\ FreshPage
  /\ strictMode \in BOOLEAN
  /\ replays = 0
  /\ reloads = 0
  /\ streakReloads = 0

InFlight(c) == calls[c].pc \in {"fetch", "text", "json"}

\* loadData up to its first await (lines 243-257), with the effects the
\* re-render runs: dataReady false clears the hourly, jitter and replay
\* intervals (lines 307, 319, 339) and,
\* when dataReady was true, re-runs the overlay effect (lines 353-365), whose
\* cleanup clears the fade timer.
loadDataStart ==
  /\ nCalls < MaxCalls
  /\ nCalls' = nCalls + 1
  /\ controller' = nCalls + 1
  /\ calls' = [c \in 1..MaxCalls |->
                 IF c = nCalls + 1 THEN [IdleCall EXCEPT !.pc = "fetch"]
                 ELSE IF c = controller THEN [calls[c] EXCEPT !.aborted = TRUE]
                 ELSE calls[c]]
  /\ loading' = TRUE
  /\ error' = NoError
  /\ dataReady' = FALSE
  /\ hourlyTimer' = FALSE
  /\ overlayMounted' = TRUE
  /\ overlayVisible' = TRUE
  /\ overlayTimer' = FALSE
  /\ jitterTimer' = FALSE
  /\ replayTimer' = FALSE
  /\ UNCHANGED <<data, meta, cycle, retryCount, reloadTimers, replayStepTimer,
                 replayFadeTimer, pixelShift>>

\* The mount effect (lines 294-297) runs loadData.
MountEffect ==
  /\ mode = "fresh"
  /\ loadDataStart
  /\ mode' = IF strictMode THEN "strict" ELSE "running"
  /\ UNCHANGED <<strictMode, replays, reloads, streakReloads, tvars>>

\* Under StrictMode React runs the mount effect's cleanup (abort, line 296) and
\* the effect again, before anything else happens.
StrictRemount ==
  /\ mode = "strict"
  /\ loadDataStart
  /\ mode' = "running"
  /\ UNCHANGED <<strictMode, replays, reloads, streakReloads, tvars>>

\* The hourly interval (lines 299-308) fires.
HourlyTick ==
  /\ mode = "running"
  /\ hourlyTimer
  /\ loadDataStart
  /\ UNCHANGED <<mode, strictMode, replays, reloads, streakReloads, tvars>>

\* finally { setLoading(false) } after a return that wrote nothing else.
SilentReturn(c) ==
  /\ loading' = FALSE
  /\ calls' = [calls EXCEPT ![c].pc = "done"]
  /\ UNCHANGED <<mode, strictMode, data, meta, error, dataReady, cycle, retryCount,
                 controller, nCalls, reloadTimers, hourlyTimer, overlayMounted,
                 overlayVisible, overlayTimer, cosmetic, reloads, streakReloads, tvars>>

\* The failure branches (lines 262-269 and 282-288), then finally.
Fail(c, message) ==
  /\ error' = message
  /\ data' = empty.data
  /\ retryCount' = retryCount + 1
  /\ reloadTimers' = IF retryCount + 1 <= MAX_RETRIES THEN reloadTimers + 1 ELSE reloadTimers
  /\ streakReloads' = IF retryCount + 1 <= MAX_RETRIES THEN streakReloads + 1
                      ELSE streakReloads
  /\ loading' = FALSE
  /\ calls' = [calls EXCEPT ![c].pc = "done"]
  /\ UNCHANGED <<mode, strictMode, meta, dataReady, cycle, controller, nCalls,
                 hourlyTimer, overlayMounted, overlayVisible, overlayTimer, cosmetic,
                 reloads, tvars>>

\* await fetch(...) settles: an aborted signal rejects it with an AbortError;
\* otherwise it resolves with a response or rejects with a transport error.
FetchSettles(c) ==
  /\ mode = "running"
  /\ calls[c].pc = "fetch"
  /\ IF calls[c].aborted THEN SilentReturn(c)
     ELSE \/ \E st \in ErrorStatuses :
               /\ calls' = [calls EXCEPT ![c].pc = "text", ![c].status = st]
               /\ UNCHANGED <<mode, strictMode, data, meta, loading, error, dataReady,
                              cycle, retryCount, controller, nCalls, reloadTimers,
                              hourlyTimer, overlayMounted, overlayVisible, overlayTimer,
                              cosmetic, reloads, streakReloads, tvars>>
          \/ \E b \in Bodies :
               /\ calls' = [calls EXCEPT ![c].pc = "json", ![c].status = 200, ![c].body = b]
               /\ UNCHANGED <<mode, strictMode, data, meta, loading, error, dataReady,
                              cycle, retryCount, controller, nCalls, reloadTimers,
                              hourlyTimer, overlayMounted, overlayVisible, overlayTimer,
                              cosmetic, reloads, streakReloads, tvars>>
          \/ Fail(c, "Failed to fetch")

\* await res.text().catch(() => '') settles: a rejection (an abort too) is
\* swallowed, and the HTTP error branch runs.
TextSettles(c) ==
  /\ mode = "running"
  /\ calls[c].pc = "text"
  /\ Fail(c, ApiError(calls[c].status))

\* The success path (lines 273-278), then finally, with the effects of
\* dataReady true: the hourly, jitter and replay intervals are set (lines 303,
\* 315, 327) and the overlay effect hides the overlay and starts its fade timer
\* (lines 362-363).
Succeed(c, result) ==
  /\ data' = result.data
  /\ meta' = result.meta
  /\ dataReady' = TRUE
  /\ cycle' = cycle + 1
  /\ loading' = FALSE
  /\ hourlyTimer' = TRUE
  /\ overlayVisible' = FALSE
  /\ overlayTimer' = TRUE
  /\ streakReloads' = 0
  /\ calls' = [calls EXCEPT ![c].pc = "done"]
  /\ jitterTimer' = TRUE
  /\ replayTimer' = TRUE
  /\ UNCHANGED <<mode, strictMode, error, retryCount, controller, nCalls, reloadTimers,
                 overlayMounted, replayStepTimer, replayFadeTimer, pixelShift, replays,
                 reloads, tvars>>

\* await res.json() settles: an aborted signal rejects it with an AbortError,
\* a body that is no JSON with a SyntaxError; otherwise the rows are normalised,
\* and an exception of the normaliser lands in the catch branch.
JsonSettles(c) ==
  /\ mode = "running"
  /\ calls[c].pc = "json"
  /\ IF calls[c].aborted THEN SilentReturn(c)
     ELSE IF ~calls[c].body.valid THEN Fail(c, "Unexpected token")
     ELSE LET result == transformApiToNormalizedChart(calls[c].body.json)
          IN  IF result.threw THEN Fail(c, "Cannot read properties of null")
              ELSE Succeed(c, result)

\* The overlay's fade timer fires (line 363).
OverlayTimerFires ==
  /\ mode = "running"
  /\ overlayTimer
  /\ overlayMounted' = FALSE
  /\ overlayTimer' = FALSE
  /\ UNCHANGED <<mode, strictMode, data, meta, loading, error, dataReady, cycle,
                 retryCount, controller, calls, nCalls, reloadTimers, hourlyTimer,
                 overlayVisible, cosmetic, reloads, streakReloads, tvars>>

\* A reload timer fires: window.location.reload() loads the page anew, with
\* every state, ref, timer and pending call of the old document gone.
ReloadFires ==
  /\ mode = "running"
  /\ reloadTimers > 0
  /\ reloads < MaxReloads
  /\ reloads' = reloads + 1
  /\ mode' = "fresh"
  /\ data' = <<>>
  /\ meta' = Meta(31, 31, 0, 0)
  /\ loading' = TRUE
  /\ error' = NoError
  /\ dataReady' = FALSE
  /\ cycle' = 0
  /\ retryCount' = 0
  /\ controller' = 0
  /\ calls' = [c \in 1..MaxCalls |-> IdleCall]
  /\ nCalls' = 0
  /\ reloadTimers' = 0
  /\ hourlyTimer' = FALSE
  /\ overlayMounted' = TRUE
  /\ overlayVisible' = TRUE
  /\ overlayTimer' = FALSE
  /\ jitterTimer' = FALSE
  /\ replayTimer' = FALSE
  /\ replayStepTimer' = FALSE
  /\ replayFadeTimer' = FALSE
  /\ pixelShift' = 0
  /\ UNCHANGED <<strictMode, replays, streakReloads, tvars>>

\* The jitter interval (lines 315-317) fires.
JitterTick ==
  /\ mode = "running"
  /\ jitterTimer
  /\ \E shift \in PixelShifts : pixelShift' = shift
  /\ UNCHANGED <<mode, strictMode, data, meta, loading, error, dataReady, cycle,
                 retryCount, controller, calls, nCalls, reloadTimers, hourlyTimer,
                 overlayMounted, overlayVisible, overlayTimer, jitterTimer, replayTimer,
                 replayStepTimer, replayFadeTimer, replays, reloads, streakReloads, tvars>>

\* The replay interval (lines 327-337) fires: it shows the overlay and sets
\* the timeout of the replay step.  The interval (CYCLE_MS, 300 s) is longer
\* than both timeouts together, so a tick finds none of them pending.
ReplayTick ==
  /\ mode = "running"
  /\ replayTimer
  /\ ~replayStepTimer /\ ~replayFadeTimer
  /\ replays < MaxReplays
  /\ replays' = replays + 1
  /\ overlayMounted' = TRUE
  /\ overlayVisible' = TRUE
  /\ replayStepTimer' = TRUE
  /\ UNCHANGED <<mode, strictMode, data, meta, loading, error, dataReady, cycle,
                 retryCount, controller, calls, nCalls, reloadTimers, hourlyTimer,
                 overlayTimer, jitterTimer, replayTimer, replayFadeTimer, pixelShift,
                 reloads, streakReloads, tvars>>

\* The timeout of the replay step (lines 331-336) fires; no cleanup clears it.
\* It bumps cycle, hides the overlay and sets the fade timeout; on a page that
\* is torn down the state updates are dropped, the timeout is set all the same.
ReplayStepFires ==
  /\ mode \in {"running", "unmounted"}
  /\ replayStepTimer
  /\ replayStepTimer' = FALSE
  /\ replayFadeTimer' = TRUE
  /\ cycle' = IF mode = "running" THEN cycle + 1 ELSE cycle
  /\ overlayVisible' = IF mode = "running" THEN FALSE ELSE overlayVisible
  /\ UNCHANGED <<mode, strictMode, data, meta, loading, error, dataReady, retryCount,
                 controller, calls, nCalls, reloadTimers, hourlyTimer, overlayMounted,
                 overlayTimer, jitterTimer, replayTimer, pixelShift, replays, reloads,
                 streakReloads, tvars>>

\* The fade timeout of a replay step (line 335) fires; no cleanup clears it.
ReplayFadeFires ==
  /\ mode \in {"running", "unmounted"}
  /\ replayFadeTimer
  /\ replayFadeTimer' = FALSE
  /\ overlayMounted' = IF mode = "running" THEN FALSE ELSE overlayMounted
  /\ UNCHANGED <<mode, strictMode, data, meta, loading, error, dataReady, cycle,
                 retryCount, controller, calls, nCalls, reloadTimers, hourlyTimer,
                 overlayVisible, overlayTimer, jitterTimer, replayTimer, replayStepTimer,
                 pixelShift, replays, reloads, streakReloads, tvars>>

\* The page is torn down: every effect's cleanup runs.  The mount effect's
\* aborts the current call (line 296); the hourly, jitter and replay effects'
\* clear their intervals (lines 307, 319, 339); the overlay effect's clears
\* its fade timeout (line 364).  The reload timeouts and the timeouts of the
\* replay step have no cleanup.
Unmount ==
  /\ mode = "running"
  /\ mode' = "unmounted"
  /\ calls' = [c \in 1..MaxCalls |->
                 IF c = controller THEN [calls[c] EXCEPT !.aborted = TRUE] ELSE calls[c]]
  /\ hourlyTimer' = FALSE
  /\ jitterTimer' = FALSE
  /\ replayTimer' = FALSE
  /\ overlayTimer' = FALSE
  /\ UNCHANGED <<strictMode, data, meta, loading, error, dataReady, cycle, retryCount,
                 controller, nCalls, reloadTimers, overlayMounted, overlayVisible,
                 replayStepTimer, replayFadeTimer, pixelShift, replays, reloads,
                 streakReloads, tvars>>

\* A call of a page that is torn down resumes; its signal is aborted.  At
\* await fetch or await res.json() it gets an AbortError and returns; at
\* await res.text() the rejection is swallowed and the HTTP error branch runs:
\* the state updates are dropped, the ref is counted up and the reload
\* timeout is set (lines 265-268).
SettleAfterTeardown(c) ==
  /\ mode = "unmounted"
  /\ InFlight(c)
  /\ calls' = [calls EXCEPT ![c].pc = "done"]
  /\ IF calls[c].pc = "text"
     THEN /\ retryCount' = retryCount + 1
          /\ reloadTimers' = IF retryCount + 1 <= MAX_RETRIES THEN reloadTimers + 1
                             ELSE reloadTimers
          /\ streakReloads' = IF retryCount + 1 <= MAX_RETRIES THEN streakReloads + 1
                              ELSE streakReloads
     ELSE UNCHANGED <<retryCount, reloadTimers, streakReloads>>
  /\ UNCHANGED <<mode, strictMode, data, meta, loading, error, dataReady, cycle,
                 controller, nCalls, hourlyTimer, overlayMounted, overlayVisible,
                 overlayTimer, cosmetic, reloads, tvars>>

\* A reload timeout fires on a page that is torn down: the document is
\* loaded anew, and its pending timeouts and calls are gone with it.
ReloadFiresAfterTeardown ==
  /\ mode = "unmounted"
  /\ reloadTimers > 0
  /\ reloadTimers' = 0
  /\ replayStepTimer' = FALSE
  /\ replayFadeTimer' = FALSE
  /\ calls' = [c \in 1..MaxCalls |-> IdleCall]
  /\ UNCHANGED <<mode, strictMode, data, meta, loading, error, dataReady, cycle,
                 retryCount, controller, nCalls, hourlyTimer, overlayMounted,
                 overlayVisible, overlayTimer, jitterTimer, replayTimer, pixelShift,
                 replays, reloads, streakReloads, tvars>>

PNext ==
  \/ MountEffect
  \/ StrictRemount
  \/ HourlyTick
  \/ \E c \in 1..MaxCalls : FetchSettles(c)
  \/ \E c \in 1..MaxCalls : TextSettles(c)
  \/ \E c \in 1..MaxCalls : JsonSettles(c)
  \/ OverlayTimerFires
  \/ ReloadFires
  \/ JitterTick
  \/ ReplayTick
  \/ ReplayStepFires
  \/ ReplayFadeFires
  \/ Unmount
  \/ \E c \in 1..MaxCalls : SettleAfterTeardown(c)
  \/ ReloadFiresAfterTeardown

\* The page with its server.
Init == PInit /\ LInit /\ payload = Absent /\ out = NoResult /\ tpc = "input"

Next == PNext /\ UNCHANGED lvars

Spec == Init /\ [][Next]_vars

\* The normaliser alone, on every payload within the bounds.
InitTransform == TInit /\ PInit /\ LInit /\ strictMode = FALSE

NextTransform == TNext /\ UNCHANGED <<pvars, lvars>>

SpecTransform == InitTransform /\ [][NextTransform]_vars

\* The labels alone, on every value within the bounds.
InitLabels == Init /\ strictMode = FALSE

NextLabels == LNext /\ UNCHANGED <<tvars, pvars>>

SpecLabels == InitLabels /\ [][NextLabels]_vars

\* ------------------------------------------------------------------------
\* Properties of the normaliser
\* ------------------------------------------------------------------------

Finished == tpc = "done"

\* The payload is a non-empty list of row objects.
NonEmptyRows == payload.isArray /\ Len(payload.rows) > 0

RowObjects == NonEmptyRows /\ \A i \in 1..Len(payload.rows) : ~payload.rows[i].isNull

\* The days the input has a row for, read off the payload as received.
InputDays == {parseDay(payload.rows[i].base_month_day) : i \in 1..Len(payload.rows)}

\* The row that stands for day d: the last one in the payload with that day.
InputRowOf(d) ==
  payload.rows[CHOOSE i \in 1..Len(payload.rows) :
                 /\ parseDay(payload.rows[i].base_month_day) = d
                 /\ \A j \in (i + 1)..Len(payload.rows) :
                      parseDay(payload.rows[j].base_month_day) # d]

\* The total of a field's parsed amounts over the days 1..n the input has.
RECURSIVE InputTotal(_, _)
InputTotal(key, n) ==
  IF n = 0 THEN 0
  ELSE InputTotal(key, n - 1)
       + (IF n \in InputDays THEN toNumber(InputRowOf(n)[key]) ELSE 0)

\* The days d > 0 of the rows whose current-month amount is not the sentinel.
RealCurrentDays ==
  {d \in InputDays :
     /\ d > 0
     /\ \E i \in 1..Len(payload.rows) :
          /\ parseDay(payload.rows[i].base_month_day) = d
          /\ ToLowerCase(Trim(ToStringOrEmpty(payload.rows[i][KeyCurrent]))) # StrNan}

\* C1: in the output the lastYear series, the record series and the present
\* part of the current series are non-negative and non-decreasing in x.
C1_SeriesNonNegativeNonDecreasing ==
  (Finished /\ RowObjects) =>
    /\ \A i \in 1..Len(out.data) :
         /\ out.data[i].lastYear >= 0
         /\ out.data[i].record >= 0
         /\ out.data[i].current # Null => out.data[i].current[1] >= 0
    /\ \A i \in 1..(Len(out.data) - 1) :
         /\ out.data[i].lastYear <= out.data[i + 1].lastYear
         /\ out.data[i].record <= out.data[i + 1].record
         /\ (out.data[i].current # Null /\ out.data[i + 1].current # Null)
              => out.data[i].current[1] <= out.data[i + 1].current[1]

\* C2: for a non-empty input, lastYear and record are 0 at x = 0 and at
\* x = 100 equal the total of the field's parsed amounts over the days 1..31
\* the input has (values are in hundredths): no such day is cut off.
C2_BoundaryValues ==
  (Finished /\ RowObjects) =>
    /\ out.data[1].x = 0
    /\ out.data[1].lastYear = 0
    /\ out.data[1].record = 0
    /\ out.data[Len(out.data)].x = 100
    /\ out.data[Len(out.data)].lastYear = 100 * InputTotal(KeyLastYear, 31)
    /\ out.data[Len(out.data)].record = 100 * InputTotal(KeyRecord, 31)

\* C2 witness: a day past 28 carries the only last-year amounts while the
\* record series has its own, shorter, length.
C2_Witness ==
  /\ Finished /\ RowObjects
  /\ out.meta.currentMonthLen = 29
  /\ out.meta.recordMonthLen = 28
  /\ out.data[Len(out.data)].lastYear = 5000
  /\ out.data[Len(out.data)].record = -300

\* C3: for a non-empty input, every point after meta.currentProgressX has
\* current absent (null) and every point up to it has a present number.
C3_Truncation ==
  (Finished /\ RowObjects) =>
    \A i \in 1..Len(out.data) :
       /\ out.data[i].x > out.meta.currentProgressX => out.data[i].current = Null
       /\ out.data[i].x <= out.meta.currentProgressX
            => (Len(out.data[i].current) = 1 /\ out.data[i].current[1] \in Int)

\* C3 witness: the current series stops strictly inside the axis, after a
\* point that carries a non-zero value.
C3_Witness ==
  /\ Finished /\ RowObjects
  /\ out.meta.currentProgressX \in 1..99
  /\ out.data[out.meta.currentProgressX + 1].current # Null
  /\ out.data[out.meta.currentProgressX + 1].current[1] > 0
  /\ out.data[out.meta.currentProgressX + 2].current = Null

\* C4: a non-empty row list gives exactly 101 points with x = 0, 1, ..., 100 in
\* order; an empty or absent one gives exactly the one-point fallback with the
\* default meta.
C4_Shape ==
  /\ (Finished /\ RowObjects) =>
       /\ ~out.threw
       /\ Len(out.data) = 101
       /\ \A i \in 1..101 : out.data[i].x = i - 1
  /\ (Finished /\ ~NonEmptyRows) =>
       /\ ~out.threw
       /\ out.data = <<[x |-> 0, current |-> <<0>>, lastYear |-> 0, record |-> 0]>>
       /\ out.meta = [currentMonthLen |-> 31, recordMonthLen |-> 31,
                      todayDay |-> 0, currentProgressX |-> 0]

\* C4 witness: a two-row list has been normalised to 101 points.
C4_Witness ==
  /\ Finished /\ RowObjects
  /\ Len(payload.rows) = 2
  /\ Len(out.data) = 101
  /\ out.data[101].x = 100

\* C5: transformApiToNormalizedChart never throws, whatever the parsed payload
\* holds, rows that are null included.
C5_NeverThrows == Finished => ~out.threw

\* C9 as claimed: todayDay is the largest day d > 0 with a real (non-"nan")
\* current-month amount, capped at currentMonthLen, and 0 when there is none.
C9_TodayZeroWithoutRealDay ==
  (Finished /\ RowObjects) =>
    out.meta.todayDay = Min2(SetMax(RealCurrentDays, 0), out.meta.currentMonthLen)

\* C9 amended: todayDay is the largest day d > 0 with a real (non-"nan")
\* current-month amount, capped at currentMonthLen; when no row with d > 0 has
\* one it is the largest day d > 0 of any row, capped alike, and 0 only when
\* the input has no row with d > 0.
C9_TodayDay ==
  (Finished /\ RowObjects) =>
    out.meta.todayDay =
      Min2(IF RealCurrentDays # {} THEN SetMax(RealCurrentDays, 0)
           ELSE SetMax({d \in InputDays : d > 0}, 0),
           out.meta.currentMonthLen)

\* C9 witness: the largest day present is "nan" for the current month and
\* real for last year, so it sets the month length and not today.
C9_Witness ==
  /\ Finished /\ RowObjects
  /\ RealCurrentDays = {1}
  /\ 29 \in InputDays
  /\ out.meta.todayDay = 1
  /\ out.meta.currentMonthLen = 29

\* C10: the returned meta has both month lengths in 28..31, todayDay in
\* 0..currentMonthLen, and currentProgressX in 0..100 equal to
\* round(100 * todayDay / currentMonthLen) (halves up).
C10_MetaRanges ==
  (Finished /\ RowObjects) =>
    LET m == out.meta
    IN  /\ m.currentMonthLen \in 28..31
        /\ m.recordMonthLen \in 28..31
        /\ m.todayDay \in 0..m.currentMonthLen
        /\ m.currentProgressX \in 0..100
        /\ (2 * m.currentProgressX - 1) * m.currentMonthLen <= 200 * m.todayDay
        /\ 200 * m.todayDay < (2 * m.currentProgressX + 1) * m.currentMonthLen

\* C10 witness: today is day 1 of a 28-day month, the record month has 31
\* days, and the percentage is rounded up (100 / 28 = 3.57 gives 4).
C10_Witness ==
  /\ Finished /\ RowObjects
  /\ out.meta.currentMonthLen = 28
  /\ out.meta.recordMonthLen = 31
  /\ out.meta.todayDay = 1
  /\ out.meta.currentProgressX = 4

\* The days d > 0 of the input rows in which one of the fields keys is present
\* (not empty once trimmed) and not the sentinel.
QualifyingDays(keys) ==
  {d \in InputDays :
     /\ d > 0
     /\ \E i \in 1..Len(payload.rows) :
          /\ parseDay(payload.rows[i].base_month_day) = d
          /\ \E k \in keys :
               LET raw == ToLowerCase(Trim(ToStringOrEmpty(payload.rows[i][k])))
               IN  raw # <<>> /\ raw # StrNan}

\* clamp(M, 28, 31) with M the largest qualifying day, else the largest day
\* d > 0 present, else 31.
LargestDayLength(keys) ==
  LET positive == {d \in InputDays : d > 0}
      M == IF QualifyingDays(keys) # {} THEN SetMax(QualifyingDays(keys), 0)
           ELSE IF positive # {} THEN SetMax(positive, 0)
           ELSE 31
  IN  Min2(Max2(M, 28), 31)

\* C12: currentMonthLen is clamp(M, 28, 31) for the fields current and
\* lastYear taken together and recordMonthLen the same for the field record
\* alone, M being the largest day d > 0 of a row in which one of the fields is
\* present and not "nan" and, when no row qualifies, the largest day d > 0
\* among the rows (31 only when there is none).
C12_InferredLength ==
  (Finished /\ RowObjects) =>
    /\ out.meta.currentMonthLen = LargestDayLength({KeyCurrent, KeyLastYear})
    /\ out.meta.recordMonthLen = LargestDayLength({KeyRecord})

\* The totals of a field's parsed amounts through each of the days 1..n.
RECURSIVE InputTotals(_, _)
InputTotals(key, n) ==
  IF n = 0 THEN <<>>
  ELSE LET before == InputTotals(key, n - 1)
       IN  Append(before,
                  (IF n = 1 THEN 0 ELSE before[n - 1])
                  + (IF n \in InputDays THEN toNumber(InputRowOf(n)[key]) ELSE 0))

\* For x in 1..99, in hundredths: the straight line at day position x * L / 100
\* between the total through the day below it (0 for day 0) and the total
\* through the day after that one, capped at L.
Interpolated(key, L) ==
  LET tot == InputTotals(key, L)
      through(n) == IF n = 0 THEN 0 ELSE tot[n]
  IN  [x \in 1..99 |->
         LET lo   == (x * L) \div 100
             hi   == Min2(lo + 1, L)
             frac == (x * L) % 100
         IN  100 * through(lo) + (through(hi) - through(lo)) * frac]

\* C13: for every x in 1..99 each series' value is the linear interpolation of
\* its cumulative daily totals at day position x * L / 100, L being the length
\* inferred for that series (currentMonthLen for current, where present, and
\* lastYear, recordMonthLen for record); on a month of all-1 amounts, 31 days
\* long for the current month and 28 for the record month, current is 15.5 at
\* x = 50 and 31 at x = 100, and record is 14 at x = 50 and 28 at x = 100.
C13_LinearInterpolation ==
  (Finished /\ RowObjects) =>
    LET cur == Interpolated(KeyCurrent, out.meta.currentMonthLen)
        ly  == Interpolated(KeyLastYear, out.meta.currentMonthLen)
        rec == Interpolated(KeyRecord, out.meta.recordMonthLen)
    IN  /\ \A i \in 1..Len(out.data) :
             LET p == out.data[i]
             IN  p.x \in 1..99 =>
                   /\ p.lastYear = ly[p.x]
                   /\ p.record = rec[p.x]
                   /\ p.current # Null => p.current = Some(cur[p.x])
        /\ payload = Array(MonthRows) =>
             /\ out.data[51].current = Some(1550)
             /\ out.data[101].current = Some(3100)
             /\ out.data[51].record = 1400
             /\ out.data[101].record = 2800

\* The month of all-1 amounts was normalised, with lengths 31 and 28, and
\* current at x = 50 lies half-way between the totals through days 15 and 16.
C13_Witness ==
  /\ Finished
  /\ payload = Array(MonthRows)
  /\ out.meta.currentMonthLen = 31
  /\ out.meta.recordMonthLen = 28
  /\ out.data[51] = [x |-> 50, current |-> Some(1550), lastYear |-> 1550, record |-> 1400]

\* ------------------------------------------------------------------------
\* Properties of the Page component
\* ------------------------------------------------------------------------

\* A step of call c itself: it resumes from the await it was suspended at.
Resumes(c) ==
  /\ InFlight(c)
  /\ calls'[c].pc \in {"text", "json", "done"}
  /\ calls'[c].pc # calls[c].pc

\* C6: a loadData call that a later call has cancelled writes no shared state
\* from then on: data, meta, error, loading, dataReady, cycle, the retry
\* counter and the scheduled reloads stay as they are at each of its steps.
C6_CancelledCallWritesNothing ==
  [][\A c \in 1..MaxCalls : (calls[c].aborted /\ Resumes(c)) => UNCHANGED shared]_vars

\* C7: in a run of consecutive failures at most MAX_RETRIES reloads are
\* scheduled; after that no further one is.
C7_ReloadsBounded == streakReloads <= MAX_RETRIES

\* C8: once a fetch has failed and nothing is pending for the overlay (no call
\* in flight, no fade timer), the overlay is not mounted over the error
\* message and the degenerate dataset.
C8_ErrorNotCovered ==
  ( /\ error # NoError
    /\ ~loading
    /\ data = <<[x |-> 0, current |-> <<0>>, lastYear |-> 0, record |-> 0]>>
    /\ \A c \in 1..MaxCalls : ~InFlight(c)
    /\ ~overlayTimer )
  => ~overlayMounted

\* ------------------------------------------------------------------------
\* Properties of the labels
\* ------------------------------------------------------------------------

Labelled == lpc \in {"bubble", "summary"}

HasDot(l) == \E i \in 1..Len(l) : l[i] = "."

\* The number a label shows, in tenths of a million: the digits before the
\* "M", with at most one decimal.
LabelTenths(l) ==
  LET body == SubSeq(l, 1, Len(l) - 1)
  IN  IF HasDot(body)
      THEN LET i == CHOOSE i \in 1..Len(body) : body[i] = "."
           IN  10 * DigitsValue(SubSeq(body, 1, i - 1)) + DigitsValue(SubSeq(body, i + 1, Len(body)))
      ELSE 10 * DigitsValue(body)

\* Digits, at most one ".", with exactly one digit other than 0 after it, and
\* no leading zero; then "M".
WellFormedLabel(l) ==
  /\ Len(l) >= 2
  /\ l[Len(l)] = "M"
  /\ \A i \in 1..(Len(l) - 1) : IsDigit(l[i]) \/ (l[i] = "." /\ i = Len(l) - 2 /\ i > 1)
  /\ HasDot(l) => l[Len(l) - 1] # "0"
  /\ (Len(l) > 2 /\ l[2] # ".") => l[1] # "0"

\* C11: a rendered label of a value v >= 0 is well formed and shows v in
\* millions rounded up: "0M" for 0; below ten million the least number of
\* tenths of a million that is not below v, without the decimal when it is a
\* whole number of millions (2,500,000 -> "2.5M", 2,000,000 -> "2M",
\* 9,999,999 -> "10M"); from ten million on the least whole number of
\* millions that is not below v.  The label is never smaller than v.
C11_MillionsRoundedUp ==
  Labelled =>
    /\ WellFormedLabel(label)
    /\ value = 0 => label = <<"0", "M">>
    /\ LabelTenths(label) * PerTenth >= value
    /\ value < 10 * PerMillion =>
         /\ (LabelTenths(label) - 1) * PerTenth < value
         /\ HasDot(label) <=> LabelTenths(label) % 10 # 0
    /\ value >= 10 * PerMillion =>
         /\ ~HasDot(label)
         /\ (LabelTenths(label) - 10) * PerTenth < value
    /\ value = 25 * PerTenth => label = <<"2", ".", "5", "M">>
    /\ value = 2 * PerMillion => label = <<"2", "M">>
    /\ value = 10 * PerMillion - 100 => label = <<"1", "0", "M">>

\* 9,999,999 is labelled "10M", 2,000,000.50 "2.1M" and 10,000,000.50 "11M".
C11_Witness ==
  /\ Labelled
  /\ \/ value = 10 * PerMillion - 100 /\ label = <<"1", "0", "M">>
     \/ value = 2 * PerMillion + 50 /\ label = <<"2", ".", "1", "M">>
     \/ value = 10 * PerMillion + 50 /\ label = <<"1", "1", "M">>

TornDown == mode = "unmounted"

\* A timer of the page fires: one of its intervals or one of its timeouts.
TimerFires ==
  \/ HourlyTick
  \/ JitterTick
  \/ ReplayTick
  \/ ReplayStepFires
  \/ ReplayFadeFires
  \/ OverlayTimerFires
  \/ ReloadFires
  \/ ReloadFiresAfterTeardown

\* C14: once the page is torn down no timer it started fires any more (no
\* hourly fetch, no replay step, delayed ones included, no jitter update, no
\* reload), and at no time are two reload timeouts pending.
C14_NoTimerAfterTeardown ==
  /\ [](reloadTimers <= 1)
  /\ [][TornDown => ~TimerFires]_vars

====
